---- MODULE Spec2Model ----
(***************************************************************************)
(* ResQ disaster-relief backend: the allocation optimizer                  *)
(* (services/optimizer.py), the event processor                            *)
(* (services/event_handler.py) and the two endpoints of main.py that       *)
(* drive them against the module-level snapshot.                           *)
(*                                                                         *)
(* Numbers.  Loads are continuous solver variables (NumVar); they are      *)
(* kept here as integers counted in 1/Grain of a unit, so a load value v   *)
(* stands for v/Grain units.  Percentages are kept in hundredths of a      *)
(* percent (the code rounds them to 2 decimals).  The objective is kept    *)
(* multiplied by PenaltyScale*Grain so that the 0.001 weight is exact.     *)
(* Coordinates are kilometres along one great circle, so that the          *)
(* haversine distance of two points is the absolute difference of their    *)
(* positions.  backend is the solver backend the installed solver library  *)
(* offers: it is fixed when the process starts.                            *)
(***************************************************************************)
EXTENDS Integers, Sequences, FiniteSets, TLC

VARIABLES zones, depots, assets, sol, plan, last, http, threads, backend

vars == <<zones, depots, assets, sol, plan, last, http, threads, backend>>

\* ---------------------------------------------------------------- bounds
MaxCap == 2        \* largest asset capacity drawn by Init
MaxDemand == 3     \* largest zone demand drawn by Init and by events
MaxStock == 3      \* largest depot stock drawn by Init
Grain == 2         \* solver values are multiples of 1/Grain

\* ------------------------------------------------------ program constants
BIG_M == 1000000
TruckSpeed == 35
BoatSpeed == 20
OtherSpeed == 25
PenaltyScale == 1000   \* the penalty weight is 1/PenaltyScale per km
Percent == 100
Hundredths == 100      \* round(x, 2)

None == "None"      \* an absent string, an absent depot
Absent == <<>>      \* an Optional[int] that is None
Given(v) == <<v>>   \* an Optional[int] that holds v

\* ---------------------------------------------------------------- helpers
Min(a, b) == IF a <= b THEN a ELSE b
Max(a, b) == IF a >= b THEN a ELSE b
Abs(a) == IF a >= 0 THEN a ELSE -a
SetMax(S) == CHOOSE m \in S : \A x \in S : x <= m

RECURSIVE SumFirst(_, _)
\* the sum of the first n elements of the sequence s
SumFirst(s, n) == IF n = 0 THEN 0 ELSE s[n] + SumFirst(s, n - 1)

SumSeq(s) == SumFirst(s, Len(s))

\* Python's round(): nearest integer to n/d (d > 0), ties to the even one.
PyRound(n, d) ==
    LET q == n \div d
        r == n % d
    IN  IF 2 * r < d THEN q
        ELSE IF 2 * r > d THEN q + 1
        ELSE IF q % 2 = 0 THEN q ELSE q + 1

\* ------------------------------------------------------------- strings
\* str.lower() and str.strip() on the strings the model uses.
Lower(s) ==
    CASE s = "D1" -> "d1"
      [] s = " D1 " -> " d1 "
      [] s = "D2" -> "d2"
      [] s = "North Hub" -> "north hub"
      [] s = " North Hub " -> " north hub "
      [] s = "NORTH HUB" -> "north hub"
      [] s = "South Yard" -> "south yard"
      [] s = "Nowhere" -> "nowhere"
      [] OTHER -> s

Strip(s) ==
    CASE s = " D1 " -> "D1"
      [] s = " d1 " -> "d1"
      [] s = " North Hub " -> "North Hub"
      [] s = " north hub " -> "north hub"
      [] OTHER -> s

\* ------------------------------------------------------- distance model
\* utils/distance_matrix.py haversine, on positions along one great circle.
haversine(p1, p2) == Abs(p2 - p1)

\* matrix[depot_id][zone_id]; a later depot with the same id overwrites.
compute_distance_matrix(ds, zs) ==
    [d \in {ds[i].depot_id : i \in DOMAIN ds} |->
        [z \in {zs[j].zone_id : j \in DOMAIN zs} |->
            LET i == CHOOSE i \in DOMAIN ds :
                        /\ ds[i].depot_id = d
                        /\ \A k \in DOMAIN ds : ds[k].depot_id = d => k <= i
                j == CHOOSE j \in DOMAIN zs :
                        /\ zs[j].zone_id = z
                        /\ \A k \in DOMAIN zs : zs[k].zone_id = z => k <= j
            IN  haversine(ds[i].pos, zs[j].pos)]]

\* ------------------------------------------------------------ optimizer
\* _is_access_allowed without the access test for trucks
_is_access_allowed_trucks_anywhere(asset_type, zone_access) ==
    IF asset_type = "truck" THEN TRUE
    ELSE IF asset_type = "boat" THEN zone_access \in {"boat_only", "both"}
    ELSE FALSE

_is_access_allowed(asset_type, zone_access) ==
    IF asset_type = "truck" THEN zone_access \in {"road_open", "both"}
    ELSE IF asset_type = "boat" THEN zone_access \in {"boat_only", "both"}
    ELSE FALSE

_asset_speed_kmph(asset_type) ==
    IF asset_type = "truck" THEN TruckSpeed
    ELSE IF asset_type = "boat" THEN BoatSpeed
    ELSE OtherSpeed

\* the keys under which depot d is indexed in depot_by_any
DepotKeys(d) ==
    {d.depot_id, Strip(d.depot_id), Lower(d.name), Lower(Strip(d.name))}

\* depot_by_any.get(key): index of the last depot indexed under key, 0 if none
depot_by_any(ds, key) ==
    LET hits == {i \in DOMAIN ds : key \in DepotKeys(ds[i])}
    IN  IF hits = {} THEN 0
        ELSE CHOOSE i \in hits : \A k \in hits : k <= i

\* resolve_depot: index into ds of the resolved depot, 0 for None
resolve_depot(ds, start_depot_value) ==
    LET raw == start_depot_value
        norm == Strip(raw)
        lower == Lower(raw)
        lower_norm == Lower(norm)
    IN  IF start_depot_value = None THEN 0
        ELSE IF depot_by_any(ds, raw) # 0 THEN depot_by_any(ds, raw)
        ELSE IF depot_by_any(ds, norm) # 0 THEN depot_by_any(ds, norm)
        ELSE IF depot_by_any(ds, lower) # 0 THEN depot_by_any(ds, lower)
        ELSE depot_by_any(ds, lower_norm)

\* The variable dictionaries y, lf, lw, lm are keyed by (asset_id, zone_id);
\* identifiers are unique within their list, so the key of the pair is kept
\* as <<i, j>>, the positions of the asset and of the zone in their lists.
Keys(zs, as) == (DOMAIN as) \X (DOMAIN zs)

AssetOf(as, k) == as[k[1]]
ZoneOf(zs, k) == zs[k[2]]

Cap(a, c) ==
    CASE c = "food" -> a.cap_food
      [] c = "water" -> a.cap_water
      [] c = "med" -> a.cap_med

Demand(z, c) ==
    CASE c = "food" -> z.demand_food
      [] c = "water" -> z.demand_water
      [] c = "med" -> z.demand_med

Stock(d, c) ==
    CASE c = "food" -> d.stock_food
      [] c = "water" -> d.stock_water
      [] c = "med" -> d.stock_med

Commodities == {"food", "water", "med"}

\* ---- decision variables (optimizer.py 85-103)
\* upper bound of y[(a, z)]: BoolVar when access allows, IntVar(0, 0) otherwise
YUpper(zs, as, k) ==
    IF _is_access_allowed(AssetOf(as, k).type, ZoneOf(zs, k).access) THEN 1 ELSE 0

\* upper bound ub of the three load variables of (a, z)
LoadUpper(zs, as, k) ==
    IF _is_access_allowed(AssetOf(as, k).type, ZoneOf(zs, k).access)
    THEN BIG_M ELSE 0

\* ---- constraints
\* the program without the at-most-one-zone constraint
AtMostOneZone_dropped(zs, as, y) == TRUE

\* each asset serves at most one zone (105-107)
AtMostOneZone(zs, as, y) ==
    \A i \in DOMAIN as :
        SumSeq([j \in DOMAIN zs |-> y[<<i, j>>]]) <= 1

\* loads can only flow if assigned (110-114), for commodity c
LinkLoads(zs, as, y, l, c) ==
    \A k \in Keys(zs, as) : l[k] <= Grain * Cap(AssetOf(as, k), c) * y[k]

\* zone demand limits (116-120), for commodity c
ZoneDemandLimits(zs, as, l, c) ==
    \A j \in DOMAIN zs :
        SumSeq([i \in DOMAIN as |-> l[<<i, j>>]]) <= Grain * Demand(zs[j], c)

\* a grouping that charges every asset to every depot
assets_from_d_every_asset(as, d) == DOMAIN as

\* the assets grouped under depot d by the stock constraint (124-127)
assets_from_d(as, d) ==
    {i \in DOMAIN as :
        \/ as[i].start_depot = d.depot_id
        \/ Lower(as[i].start_depot) = Lower(d.name)}

\* everything asset i carries, over all zones
CarriedBy(zs, l, i) == SumSeq([j \in DOMAIN zs |-> l[<<i, j>>]])

\* depot stock limits (122-130), for commodity c
DepotStockLimits(zs, ds, as, l, c) ==
    \A n \in DOMAIN ds :
        LET group == assets_from_d(as, ds[n])
        IN  SumSeq([i \in DOMAIN as |->
                       IF i \in group THEN CarriedBy(zs, l, i) ELSE 0])
                <= Grain * Stock(ds[n], c)

\* ---- the feasible region
\* the assignment vectors within their bounds that satisfy AtMostOneZone
FeasibleY(zs, as) ==
    {y \in [Keys(zs, as) -> 0..1] :
        /\ \A k \in Keys(zs, as) : y[k] <= YUpper(zs, as, k)
        /\ AtMostOneZone(zs, as, y)}

\* the load vectors of commodity c within their bounds and linked to y
LinkedLoads(zs, as, y, c) ==
    {l \in {[k \in Keys(zs, as) |-> IF y[k] >= 1 THEN f[k] ELSE 0] :
               f \in [{k \in Keys(zs, as) : y[k] >= 1} ->
                         0..(Grain * SetMax({0} \cup {Cap(as[i], c) : i \in DOMAIN as}))]} :
        /\ \A k \in Keys(zs, as) : l[k] <= Grain * LoadUpper(zs, as, k)
        /\ LinkLoads(zs, as, y, l, c)}

\* the load vectors of commodity c that satisfy every constraint, given y
FeasibleLoads(zs, ds, as, y, c) ==
    {l \in LinkedLoads(zs, as, y, c) :
        /\ ZoneDemandLimits(zs, as, l, c)
        /\ DepotStockLimits(zs, ds, as, l, c)}

\* ---- objective (132-151)
\* dist_km of the penalty term of (a, z)
PenaltyDist(zs, ds, as, matrix, k) ==
    LET a == AssetOf(as, k)
        z == ZoneOf(zs, k)
        depot == resolve_depot(ds, a.start_depot)
        depot_key == IF depot # 0 THEN ds[depot].depot_id ELSE None
        looked == IF depot_key # None /\ depot_key \in DOMAIN matrix
                     /\ z.zone_id \in DOMAIN matrix[depot_key]
                  THEN matrix[depot_key][z.zone_id] ELSE 0
    IN  IF looked = 0 /\ depot # 0
        THEN haversine(ds[depot].pos, z.pos)
        ELSE looked

\* the sum of a load (or assignment) vector over all its keys
Total(zs, as, l) == SumSeq([i \in DOMAIN as |-> CarriedBy(zs, l, i)])

\* delivered units of a solution, in 1/Grain
Delivered(zs, as, s) ==
    Total(zs, as, s.lf) + Total(zs, as, s.lw) + Total(zs, as, s.lm)

\* the objective of a solution, multiplied by PenaltyScale * Grain
Objective(zs, ds, as, matrix, s) ==
    PenaltyScale * Delivered(zs, as, s)
    - Grain * Total(zs, as, [k \in Keys(zs, as) |->
                                PenaltyDist(zs, ds, as, matrix, k) * s.y[k]])

\* the load vectors among feasible that deliver most units in total
MostDelivering(zs, as, feasible) ==
    IF feasible = {} THEN {}
    ELSE LET most == SetMax({Total(zs, as, l) : l \in feasible})
         IN  {l \in feasible : Total(zs, as, l) = most}

\* the feasible loads of commodity c that deliver the most, given y
BestLoads(zs, ds, as, y, c) ==
    MostDelivering(zs, as, FeasibleLoads(zs, ds, as, y, c))

\* the best solutions with assignment vector y, from the best loads of each
\* commodity: feasible (is there any), value (their objective), best (they)
Combine(zs, ds, as, matrix, y, bf, bw, bm) ==
    IF bf = {} \/ bw = {} \/ bm = {}
    THEN [feasible |-> FALSE, value |-> 0, best |-> {}]
    ELSE [feasible |-> TRUE,
          value |-> Objective(zs, ds, as, matrix,
                        [y |-> y, lf |-> CHOOSE l \in bf : TRUE,
                         lw |-> CHOOSE l \in bw : TRUE,
                         lm |-> CHOOSE l \in bm : TRUE]),
          best |-> {[y |-> y, lf |-> f, lw |-> w, lm |-> m] :
                       f \in bf, w \in bw, m \in bm}]

\* Given y, the constraints and the objective are a sum of one independent
\* part per commodity, so the best solutions with this y are the products of
\* the best loads of each commodity.
BestWith(zs, ds, as, matrix, y) ==
    Combine(zs, ds, as, matrix, y,
            BestLoads(zs, ds, as, y, "food"),
            BestLoads(zs, ds, as, y, "water"),
            BestLoads(zs, ds, as, y, "med"))

\* the solutions of the best value among the per-y results
Argmax(results) ==
    LET good == {r \in results : r.feasible}
    IN  IF good = {} THEN {}
        ELSE LET best == SetMax({r.value : r \in good})
             IN  UNION {r.best : r \in {g \in good : g.value = best}}

\* solver.Solve(): the solutions the solver may return with status OPTIMAL
\* (none when the program is infeasible)
OptimalSolutions(zs, ds, as, matrix) ==
    Argmax({BestWith(zs, ds, as, matrix, y) : y \in FeasibleY(zs, as)})

\* ---- post-solve extraction (157-215)
\* the (asset, zone) index pairs in the order of the two loops
LoopPairs(zs, as) ==
    [n \in 1..(Len(as) * Len(zs)) |->
        <<((n - 1) \div Len(zs)) + 1, ((n - 1) % Len(zs)) + 1>>]

\* int(round(v.solution_value())) of a load value kept in 1/Grain
RoundLoad(v) == PyRound(v, Grain)

\* eta_min of asset a to zone z (177-187)
EtaMinutes(ds, a, z) ==
    LET depot == resolve_depot(ds, a.start_depot)
        dist_km == IF depot # 0 THEN haversine(ds[depot].pos, z.pos) ELSE 0
        speed == _asset_speed_kmph(a.type)
        eta_min == PyRound(dist_km * 60, speed)
    IN  IF eta_min = 0 /\ dist_km > 0 THEN 1 ELSE eta_min

MakeAssignment(zs, ds, as, s, p) ==
    LET a == as[p[1]]
        z == zs[p[2]]
    IN  [asset_id |-> a.asset_id,
         zone_id |-> z.zone_id,
         load_food |-> RoundLoad(s.lf[p]),
         load_water |-> RoundLoad(s.lw[p]),
         load_med |-> RoundLoad(s.lm[p]),
         eta_minutes |-> EtaMinutes(ds, a, z)]

\* the assignments, one per pair whose y is at least 0.5
ExtractAssignments(zs, ds, as, s) ==
    LET chosen == SelectSeq(LoopPairs(zs, as),
                      LAMBDA p : s.y[p] >= 1)
    IN  [n \in DOMAIN chosen |-> MakeAssignment(zs, ds, as, s, chosen[n])]

\* ---- KPIs (217-252)
RECURSIVE Insert(_, _)
Insert(x, s) ==
    IF s = <<>> THEN <<x>>
    ELSE IF x <= Head(s) THEN <<x>> \o s
    ELSE <<Head(s)>> \o Insert(x, Tail(s))

RECURSIVE Sorted(_)
Sorted(s) == IF s = <<>> THEN <<>> ELSE Insert(Head(s), Sorted(Tail(s)))

\* _median, as twice the median so that it stays an integer
_median2(values) ==
    LET sorted_vals == Sorted(values)
        n == Len(sorted_vals)
        mid == n \div 2
    IN  IF n = 0 THEN 0
        ELSE IF n % 2 = 1 THEN 2 * sorted_vals[mid + 1]
        ELSE sorted_vals[mid] + sorted_vals[mid + 1]

TotalDemand(zs) ==
    SumSeq([j \in DOMAIN zs |->
               zs[j].demand_food + zs[j].demand_water + zs[j].demand_med])

TotalServed(asg) ==
    SumSeq([n \in DOMAIN asg |->
               asg[n].load_food + asg[n].load_water + asg[n].load_med])

\* coverage that counts "nothing demanded" as fully covered
Coverage_full_when_no_demand(zs, asg) ==
    IF TotalDemand(zs) <= 0 THEN Percent * Hundredths
    ELSE PyRound(TotalServed(asg) * Percent * Hundredths, TotalDemand(zs))

\* coverage, in hundredths of a percent
Coverage(zs, asg) ==
    IF TotalDemand(zs) <= 0 THEN 0
    ELSE PyRound(TotalServed(asg) * Percent * Hundredths, TotalDemand(zs))

\* what the solution delivers to zone j of commodity load vector l, in 1/Grain
DeliveredTo(zs, as, s, l, j) ==
    SumSeq([i \in DOMAIN as |-> IF s.y[<<i, j>>] >= 1 THEN l[<<i, j>>] ELSE 0])

\* unmet demand of zone j, in 1/Grain
Unmet(zs, as, s, j) ==
    Max(Grain * zs[j].demand_food - DeliveredTo(zs, as, s, s.lf, j), 0)
    + Max(Grain * zs[j].demand_water - DeliveredTo(zs, as, s, s.lw, j), 0)
    + Max(Grain * zs[j].demand_med - DeliveredTo(zs, as, s, s.lm, j), 0)

\* m * m <= hi * 10^4, without leaving 32 bits (m < 10^7)
SquareAtMost(m, hi) ==
    LET a == m \div 10000
        b == m % 10000
        top == a * a * 10000 + 2 * a * b + ((b * b) \div 10000)
        low == (b * b) % 10000
    IN  top < hi \/ (top = hi /\ low = 0)

RECURSIVE LargestK(_, _, _, _)
\* the largest k in lo..up with ((2k - 1) * S)^2 <= 4 * 10^8 * Q (lo satisfies it)
LargestK(lo, up, S, Q) ==
    IF lo = up THEN lo
    ELSE LET mid == (lo + up + 1) \div 2
         IN  IF SquareAtMost((2 * mid - 1) * S, 4 * Q * 10000)
             THEN LargestK(mid, up, S, Q)
             ELSE LargestK(lo, mid - 1, S, Q)

\* fairness, in hundredths of a percent: 100 - min(100, 100 * std / mean)
Fairness(unmet_per_zone) ==
    LET n == Len(unmet_per_zone)
        S == SumSeq(unmet_per_zone)
        Q == n * SumSeq([j \in 1..n |-> unmet_per_zone[j] * unmet_per_zone[j]]) - S * S
        full == Percent * Hundredths
    IN  IF n > 0 /\ S > 0
        THEN Max(0, full - Min(full, LargestK(0, full, S, Q)))
        ELSE full

KPIsOf(zs, as, s, asg) ==
    [coverage_percent |-> Coverage(zs, asg),
     fairness_percent |-> Fairness([j \in DOMAIN zs |-> Unmet(zs, as, s, j)]),
     median_eta |-> PyRound(_median2([n \in DOMAIN asg |-> asg[n].eta_minutes]), 2)]

\* the Plan built from a solver solution
BuildPlan(zs, ds, as, s) ==
    LET asg == ExtractAssignments(zs, ds, as, s)
    IN  [assignments |-> asg, kpis |-> KPIsOf(zs, as, s, asg)]

\* the Plan returned when there is no solver (53-55) or the solve reaches no
\* solution (153-155)
EmptyPlan ==
    [assignments |-> <<>>,
     kpis |-> [coverage_percent |-> 0, fairness_percent |-> 0, median_eta |-> 0]]

\* the solver values when the solve reaches no solution
NoSolution == [y |-> <<>>, lf |-> <<>>, lw |-> <<>>, lm |-> <<>>, status |-> "INFEASIBLE"]

\* optimize_plan that keeps the initial fairness of 100 in the empty Plan
PlansOf_fairness_default(zs, ds, as, optimal) ==
    IF optimal = {}
    THEN {[sol |-> NoSolution,
           plan |-> [EmptyPlan EXCEPT !.kpis.fairness_percent = Percent * Hundredths]]}
    ELSE {[sol |-> [y |-> s.y, lf |-> s.lf, lw |-> s.lw, lm |-> s.lm,
                    status |-> "OPTIMAL"],
           plan |-> BuildPlan(zs, ds, as, s)] : s \in optimal}

\* optimize_plan: the (solution, Plan) pairs one call may produce
PlansOf(zs, ds, as, optimal) ==
    IF optimal = {}
    THEN {[sol |-> NoSolution, plan |-> EmptyPlan]}
    ELSE {[sol |-> [y |-> s.y, lf |-> s.lf, lw |-> s.lw, lm |-> s.lm,
                    status |-> "OPTIMAL"],
           plan |-> BuildPlan(zs, ds, as, s)] : s \in optimal}

\* pywraplp.Solver.CreateSolver("CBC") (52): None when the installed
\* solver library has no CBC backend
CreateSolver == IF backend = "CBC" THEN "CBC" ELSE None

\* the solver values when no solver was created
NoSolver == [y |-> <<>>, lf |-> <<>>, lw |-> <<>>, lm |-> <<>>, status |-> "NO_SOLVER"]

optimize_plan(zs, ds, as, matrix) ==
    IF CreateSolver = None
    THEN {[sol |-> NoSolver, plan |-> EmptyPlan]}
    ELSE PlansOf(zs, ds, as, OptimalSolutions(zs, ds, as, matrix))

\* ---------------------------------------------------------- event handler
\* the loop body with the overrides tested for truth instead of "is not None"
ApplyToZone_truthy_overrides(zone, event) ==
    IF zone.zone_id = event.target_zone \/ zone.name = event.target_zone
    THEN IF event.type = "road_block"
         THEN [zone EXCEPT !.access =
                  IF event.new_access \in {None, ""} THEN "boat_only"
                  ELSE event.new_access]
         ELSE IF event.type = "road_clear"
         THEN [zone EXCEPT !.access =
                  IF event.new_access \in {None, ""} THEN "road_open"
                  ELSE event.new_access]
         ELSE IF event.type = "sos_spike"
         THEN [zone EXCEPT
                  !.demand_food = IF event.food_demand \notin {Absent, Given(0)}
                                  THEN event.food_demand[1] ELSE @,
                  !.demand_water = IF event.water_demand \notin {Absent, Given(0)}
                                   THEN event.water_demand[1] ELSE @,
                  !.demand_med = IF event.medical_demand \notin {Absent, Given(0)}
                                 THEN event.medical_demand[1] ELSE @]
         ELSE zone
    ELSE zone

\* the loop body with a road_clear that adds road access to what the zone has
ApplyToZone_clear_adds_road(zone, event) ==
    IF zone.zone_id = event.target_zone \/ zone.name = event.target_zone
    THEN IF event.type = "road_block"
         THEN [zone EXCEPT !.access =
                  IF event.new_access \in {None, ""} THEN "boat_only"
                  ELSE event.new_access]
         ELSE IF event.type = "road_clear"
         THEN [zone EXCEPT !.access =
                  IF event.new_access \notin {None, ""} THEN event.new_access
                  ELSE IF zone.access = "boat_only" THEN "both"
                  ELSE zone.access]
         ELSE IF event.type = "sos_spike"
         THEN [zone EXCEPT
                  !.demand_food = IF event.food_demand # Absent
                                  THEN event.food_demand[1] ELSE @,
                  !.demand_water = IF event.water_demand # Absent
                                   THEN event.water_demand[1] ELSE @,
                  !.demand_med = IF event.medical_demand # Absent
                                 THEN event.medical_demand[1] ELSE @]
         ELSE zone
    ELSE zone

\* the loop body of apply_event (event_handler.py 22-37) on one zone
ApplyToZone(zone, event) ==
    IF zone.zone_id = event.target_zone \/ zone.name = event.target_zone
    THEN IF event.type = "road_block"
         THEN [zone EXCEPT !.access =
                  IF event.new_access \in {None, ""} THEN "boat_only"
                  ELSE event.new_access]
         ELSE IF event.type = "road_clear"
         THEN [zone EXCEPT !.access =
                  IF event.new_access \in {None, ""} THEN "road_open"
                  ELSE event.new_access]
         ELSE IF event.type = "sos_spike"
         THEN [zone EXCEPT
                  !.demand_food = IF event.food_demand # Absent
                                  THEN event.food_demand[1] ELSE @,
                  !.demand_water = IF event.water_demand # Absent
                                   THEN event.water_demand[1] ELSE @,
                  !.demand_med = IF event.medical_demand # Absent
                                 THEN event.medical_demand[1] ELSE @]
         ELSE zone
    ELSE zone

\* the loop without the test that the zone is the event's target
MutateZones_every_zone(zs, event) ==
    [j \in DOMAIN zs |->
        ApplyToZone(zs[j], [event EXCEPT !.target_zone = zs[j].zone_id])]

\* the zone list after the loop of apply_event
MutateZones(zs, event) == [j \in DOMAIN zs |-> ApplyToZone(zs[j], event)]

\* apply_event: the zone list it leaves, what it hands to its caller (always
\* the Plan of optimize_plan: the function has no other exit) and the
\* (solution, Plan) pairs that Plan may be
apply_event(zs, ds, as, event) ==
    LET mutated == MutateZones(zs, event)
        updated_distance_matrix == compute_distance_matrix(ds, mutated)
    IN  [zones |-> mutated,
         returned |-> "Plan",
         results |-> optimize_plan(mutated, ds, as, updated_distance_matrix)]

\* next(z for z in zones if matches, None) is not None (main.py 203-205)
TargetFound(zs, event) ==
    \E j \in DOMAIN zs :
        zs[j].zone_id = event.target_zone \/ zs[j].name = event.target_zone

\* ------------------------------------------------------------------ data
Zone(id, name, pos, access, f, w, m) ==
    [zone_id |-> id, name |-> name, pos |-> pos, access |-> access,
     demand_food |-> f, demand_water |-> w, demand_med |-> m]

Depot(id, name, pos, f, w, m) ==
    [depot_id |-> id, name |-> name, pos |-> pos,
     stock_food |-> f, stock_water |-> w, stock_med |-> m]

Asset(id, type, start, f, w, m) ==
    [asset_id |-> id, type |-> type, start_depot |-> start,
     cap_food |-> f, cap_water |-> w, cap_med |-> m]

Event(type, target, f, w, m, access) ==
    [type |-> type, target_zone |-> target, food_demand |-> f,
     water_demand |-> w, medical_demand |-> m, new_access |-> access]

NearKm == 10
FarKm == 1500

InitZoneLists ==
    {<<>>}
    \cup {<<Zone("Z1", "Riverside", NearKm, "both", MaxDemand, 0, 0),
            Zone("Z2", "Hilltop", p, "road_open", 1, 0, 1)>> : p \in {NearKm, FarKm}}

InitDepotLists ==
    {<<Depot("D1", "North Hub", 0, f, 1, 1), Depot("D2", "South Yard", 0, 1, 0, 0)>> :
        f \in {1, MaxStock}}

InitFleets ==
    {<<>>}
    \cup {<<Asset("T1", "truck", s1, MaxCap, 1, 0), Asset("A2", t2[1], t2[2], MaxCap, 0, 1)>> :
             s1 \in {"D1", " D1 "},
             t2 \in {<<"truck", "NORTH HUB">>, <<"boat", "D1">>, <<"boat", "Nowhere">>}}

Events ==
    {Event("road_block", "Z1", Absent, Absent, Absent, None),
     Event("road_clear", "Z1", Absent, Absent, Absent, None),
     Event("road_block", "Hilltop", Absent, Absent, Absent, "both"),
     Event("sos_spike", "Z1", Given(1), Absent, Absent, None),
     Event("sos_spike", "Hilltop", Given(0), Given(1), Absent, None),
     Event("sos_spike", "Z1", Given(-1), Absent, Absent, None),
     Event("road_block", "Z9", Absent, Absent, Absent, None)}

\* before the first request: no Plan has been returned, no event applied
NoPlan ==
    [assignments |-> <<>>,
     kpis |-> [coverage_percent |-> -1, fairness_percent |-> -1, median_eta |-> -1]]
NoEvent == Event(None, None, Absent, Absent, Absent, None)

\* ------------------------------------------------- concurrent requests
\* main.py declares both endpoints with def, so the server runs each request
\* on a worker thread against the module-level zones, with no lock.  A
\* thread is pc (idle, mutating, solving, done), req (its request), pending
\* (the attribute assignments of the loop of apply_event still to run),
\* written (how many it has run), left (zones as its own loop left them),
\* read (zones as its solve read them), torn (it read while another
\* thread's loop was part-way) and plan (the Plan it returns).
NumThreads == 2
Threads == 1..NumThreads

IdleThread ==
    [pc |-> "idle", req |-> [op |-> "none", event |-> NoEvent], pending |-> <<>>,
     written |-> 0, left |-> <<>>, read |-> <<>>, torn |-> FALSE, plan |-> NoPlan]

\* the assignments apply_event runs on one zone, in program order
\* (event_handler.py 23-37)
WritesTo(j, zone, event) ==
    IF zone.zone_id = event.target_zone \/ zone.name = event.target_zone
    THEN IF event.type = "road_block"
         THEN <<[zone |-> j, field |-> "access",
                 value |-> IF event.new_access \in {None, ""} THEN "boat_only"
                           ELSE event.new_access]>>
         ELSE IF event.type = "road_clear"
         THEN <<[zone |-> j, field |-> "access",
                 value |-> IF event.new_access \in {None, ""} THEN "road_open"
                           ELSE event.new_access]>>
         ELSE IF event.type = "sos_spike"
         THEN (IF event.food_demand # Absent
               THEN <<[zone |-> j, field |-> "demand_food",
                       value |-> event.food_demand[1]]>> ELSE <<>>)
              \o (IF event.water_demand # Absent
                  THEN <<[zone |-> j, field |-> "demand_water",
                          value |-> event.water_demand[1]]>> ELSE <<>>)
              \o (IF event.medical_demand # Absent
                  THEN <<[zone |-> j, field |-> "demand_med",
                          value |-> event.medical_demand[1]]>> ELSE <<>>)
         ELSE <<>>
    ELSE <<>>

RECURSIVE WritesFrom(_, _, _)
\* the assignments of the loop over zones j..Len(zs)
WritesFrom(j, zs, event) ==
    IF j > Len(zs) THEN <<>>
    ELSE WritesTo(j, zs[j], event) \o WritesFrom(j + 1, zs, event)

\* one attribute assignment
Write(zs, w) ==
    [zs EXCEPT ![w.zone] =
        IF w.field = "access" THEN [@ EXCEPT !.access = w.value]
        ELSE IF w.field = "demand_food" THEN [@ EXCEPT !.demand_food = w.value]
        ELSE IF w.field = "demand_water" THEN [@ EXCEPT !.demand_water = w.value]
        ELSE [@ EXCEPT !.demand_med = w.value]]

ConcRequests ==
    {[op |-> "optimize", event |-> NoEvent],
     [op |-> "apply_event",
      event |-> Event("sos_spike", "Hilltop", Given(0), Given(1), Absent, None)],
     [op |-> "apply_event",
      event |-> Event("road_block", "Z1", Absent, Absent, Absent, None)],
     [op |-> "apply_event",
      event |-> Event("sos_spike", "Z1", Given(1), Absent, Absent, None)]}

\* a request arrives and a worker thread enters its endpoint
Begin(t, r) ==
    /\ threads[t].pc = "idle"
    /\ threads' = [threads EXCEPT ![t] =
          IF r.op = "apply_event"
          THEN [IdleThread EXCEPT !.pc = "mutating", !.req = r,
                   !.pending = WritesFrom(1, zones, r.event)]
          ELSE [IdleThread EXCEPT !.pc = "solving", !.req = r]]
    /\ UNCHANGED <<zones, depots, assets, sol, plan, last, http, backend>>

\* the thread runs the next assignment of its loop
Mutate(t) ==
    /\ threads[t].pc = "mutating"
    /\ threads[t].pending # <<>>
    /\ zones' = Write(zones, Head(threads[t].pending))
    /\ threads' = [threads EXCEPT ![t].pending = Tail(@), ![t].written = @ + 1]
    /\ UNCHANGED <<depots, assets, sol, plan, last, http, backend>>

\* the loop is over: the thread goes on to optimize_plan
EndLoop(t) ==
    /\ threads[t].pc = "mutating"
    /\ threads[t].pending = <<>>
    /\ threads' = [threads EXCEPT ![t].pc = "solving", ![t].left = zones]
    /\ UNCHANGED <<zones, depots, assets, sol, plan, last, http, backend>>

\* some other thread is between two assignments of its loop
PartlyApplied(t) ==
    \E u \in Threads \ {t} :
        /\ threads[u].pc = "mutating"
        /\ threads[u].written > 0
        /\ threads[u].pending # <<>>

\* optimize_plan reads the zones, solves and builds the Plan
Solve(t) ==
    /\ threads[t].pc = "solving"
    /\ \E r \in optimize_plan(zones, depots, assets,
                              compute_distance_matrix(depots, zones)) :
          threads' = [threads EXCEPT ![t].pc = "done", ![t].read = zones,
                         ![t].torn = PartlyApplied(t), ![t].plan = r.plan]
    /\ UNCHANGED <<zones, depots, assets, sol, plan, last, http, backend>>

\* the response is sent and the thread returns to the pool
Finish(t) ==
    /\ threads[t].pc = "done"
    /\ threads' = [threads EXCEPT ![t] = IdleThread]
    /\ UNCHANGED <<zones, depots, assets, sol, plan, last, http, backend>>

ConcInit ==
    /\ zones = <<Zone("Z1", "Riverside", NearKm, "both", 1, 0, 0),
                 Zone("Z2", "Hilltop", NearKm, "road_open", 1, 0, 1)>>
    /\ depots = <<Depot("D1", "North Hub", 0, MaxStock, 1, 1)>>
    /\ assets = <<Asset("T1", "truck", "D1", MaxCap, 1, 0)>>
    /\ sol = NoSolution
    /\ plan = NoPlan
    /\ last = [op |-> "none", event |-> NoEvent, returned |-> "nothing"]
    /\ http = 0
    /\ threads = [t \in Threads |-> IdleThread]
    /\ backend = "CBC"

ConcNext ==
    \E t \in Threads :
        \/ \E r \in ConcRequests : Begin(t, r)
        \/ Mutate(t)
        \/ EndLoop(t)
        \/ Solve(t)
        \/ Finish(t)

SpecConc == ConcInit /\ [][ConcNext]_vars

\* --------------------------------------------------------- the endpoints
Init ==
    /\ zones \in InitZoneLists
    /\ depots \in InitDepotLists
    /\ assets \in InitFleets
    /\ sol = NoSolution
    /\ plan = NoPlan
    /\ last = [op |-> "none", event |-> NoEvent, returned |-> "nothing"]
    /\ http = 0
    /\ threads = [t \in Threads |-> IdleThread]
    /\ backend = "CBC"

\* POST /optimize (main.py 45-49); distance_matrix is the module-level table
run_optimization ==
    /\ \E r \in optimize_plan(zones, depots, assets,
                              compute_distance_matrix(depots, zones)) :
          /\ sol' = r.sol
          /\ plan' = r.plan
    /\ last' = [op |-> "optimize", event |-> NoEvent, returned |-> "Plan"]
    /\ http' = 200
    /\ UNCHANGED <<zones, depots, assets, threads, backend>>

\* the rest of the endpoint once apply_event has returned out
Respond(event, out) ==
    /\ zones' = out.zones
    /\ \E r \in out.results :
          /\ sol' = r.sol
          /\ plan' = r.plan
    /\ last' = [op |-> "apply_event", event |-> event, returned |-> out.returned]
    /\ http' = IF TargetFound(out.zones, event) THEN 200 ELSE 404
    /\ UNCHANGED <<depots, assets, threads, backend>>

\* POST /event (main.py 196-206): apply_event, then the target lookup
apply_event_endpoint(event) ==
    Respond(event, apply_event(zones, depots, assets, event))

Next ==
    \/ run_optimization
    \/ \E event \in Events : apply_event_endpoint(event)

Spec == Init /\ [][Next]_vars

\* ------------------------------------------- the environment's other cases
\* The same endpoints started in the situations the snapshot files and the
\* installation allow beyond those of Init: a solver library without the
\* CBC backend, a depot whose stock is negative, a snapshot with one zone.
EnvZoneLists ==
    {<<Zone("Z1", "Riverside", NearKm, "both", MaxDemand, 0, 0)>>,
     <<Zone("Z1", "Riverside", NearKm, "both", MaxDemand, 0, 0),
       Zone("Z2", "Hilltop", NearKm, "road_open", 1, 0, 1)>>}

EnvDepotLists ==
    {<<Depot("D1", "North Hub", 0, f, 1, 1), Depot("D2", "South Yard", 0, 1, 0, 0)>> :
        f \in {MaxStock, -1}}

EnvFleets ==
    {<<>>,
     <<Asset("T1", "truck", "D1", MaxCap, 1, 0),
       Asset("A2", "boat", "Nowhere", MaxCap, 0, 1)>>}

EnvInit ==
    /\ zones \in EnvZoneLists
    /\ depots \in EnvDepotLists
    /\ assets \in EnvFleets
    /\ sol = NoSolution
    /\ plan = NoPlan
    /\ last = [op |-> "none", event |-> NoEvent, returned |-> "nothing"]
    /\ http = 0
    /\ threads = [t \in Threads |-> IdleThread]
    /\ backend \in {"CBC", None}

SpecEnv == EnvInit /\ [][Next]_vars

\* ================================================================ claims
\* state of the variables: plan is the Plan returned by the last request's
\* call of optimize_plan or apply_event, sol the solver values it was
\* extracted from, last the request, http the status the endpoint answered.

Solved == last.op # "none"

\* C1 (as claimed): an event whose target matches no zone makes apply_event
\* signal zone-not-found to its caller instead of returning a Plan.
C1_UnknownZoneSignalled ==
    (last.op = "apply_event" /\ ~TargetFound(zones, last.event))
        => last.returned = "ZoneNotFound"

\* the integer load of commodity c in an assignment
LoadOf(asg, c) ==
    CASE c = "food" -> asg.load_food
      [] c = "water" -> asg.load_water
      [] c = "med" -> asg.load_med

AssetById(id) == assets[CHOOSE i \in DOMAIN assets : assets[i].asset_id = id]
ZoneById(id) == zones[CHOOSE j \in DOMAIN zones : zones[j].zone_id = id]

\* C2 (as claimed): in every solved Plan, per depot and commodity, the integer
\* loads of the assets whose start_depot resolves to the depot sum to at most
\* the depot's stock.
C2_DepotStockRespected ==
    sol.status = "OPTIMAL" =>
    \A n \in DOMAIN depots : \A c \in Commodities :
        SumSeq([m \in DOMAIN plan.assignments |->
                   IF resolve_depot(depots,
                          AssetById(plan.assignments[m].asset_id).start_depot) = n
                   THEN LoadOf(plan.assignments[m], c) ELSE 0])
            <= Stock(depots[n], c)

\* C3 (as claimed): in every solved Plan, per zone and commodity, the
\* integer-rounded loads of the assignments to the zone sum to at most the
\* zone's demand.
C3_ZoneDemandRespected ==
    sol.status = "OPTIMAL" =>
    \A j \in DOMAIN zones : \A c \in Commodities :
        SumSeq([m \in DOMAIN plan.assignments |->
                   IF plan.assignments[m].zone_id = zones[j].zone_id
                   THEN LoadOf(plan.assignments[m], c) ELSE 0])
            <= Demand(zones[j], c)

\* C4: no asset identifier appears in more than one Assignment of a Plan
\* returned by optimize_plan or apply_event.
C4_OneAssignmentPerAsset ==
    \A m, n \in DOMAIN plan.assignments :
        plan.assignments[m].asset_id = plan.assignments[n].asset_id => m = n

\* a Plan in which two assets are assigned, both to the same zone
C4_Witness ==
    /\ Solved
    /\ Len(plan.assignments) = 2
    /\ plan.assignments[1].zone_id = plan.assignments[2].zone_id
    /\ plan.assignments[1].asset_id # plan.assignments[2].asset_id

\* the access rule in the words of the claim
Compatible(type, access) ==
    \/ type = "truck" /\ access \in {"road_open", "both"}
    \/ type = "boat" /\ access \in {"boat_only", "both"}

\* C5: every assignment of the returned Plan is compatible with the access
\* mode the destination zone has at that solve; so while a zone stays
\* boat_only after a road_block without override, no Plan sends it a truck.
C5_AccessCompatible ==
    \A m \in DOMAIN plan.assignments :
        Compatible(AssetById(plan.assignments[m].asset_id).type,
                   ZoneById(plan.assignments[m].zone_id).access)

\* a road_block without override has closed Z1 to trucks, a truck of the
\* fleet is assigned elsewhere or idle and a boat serves Z1
C5_Witness ==
    /\ last.op = "apply_event"
    /\ last.event.type = "road_block"
    /\ last.event.new_access = None
    /\ last.event.target_zone = "Z1"
    /\ \E j \in DOMAIN zones :
          zones[j].zone_id = "Z1" /\ zones[j].access = "boat_only"
    /\ \E i \in DOMAIN assets : assets[i].type = "truck"
    /\ \E m \in DOMAIN plan.assignments :
          /\ plan.assignments[m].zone_id = "Z1"
          /\ AssetById(plan.assignments[m].asset_id).type = "boat"

Matches(zone, event) ==
    zone.zone_id = event.target_zone \/ zone.name = event.target_zone

\* the transition table in the words of the claim
TableAccess(zone, event) ==
    IF event.type = "road_block"
    THEN (IF event.new_access # None THEN event.new_access ELSE "boat_only")
    ELSE IF event.type = "road_clear"
    THEN (IF event.new_access # None THEN event.new_access ELSE "road_open")
    ELSE zone.access

TableDemand(old, override, event) ==
    IF event.type = "sos_spike" /\ override # Absent THEN override[1] ELSE old

\* C7: apply_event changes every matched zone as the transition table says:
\* road_block and road_clear set access (override, else boat_only resp.
\* road_open) and keep the demands; sos_spike overwrites exactly the demands
\* that have an override (0 included) and keeps access.  An access override
\* is one of the three access modes.
C7_TransitionTable ==
    [][last'.op = "apply_event" =>
          /\ DOMAIN zones' = DOMAIN zones
          /\ \A j \in DOMAIN zones :
                Matches(zones[j], last'.event) =>
                   /\ zones'[j].access = TableAccess(zones[j], last'.event)
                   /\ zones'[j].demand_food =
                         TableDemand(zones[j].demand_food,
                                     last'.event.food_demand, last'.event)
                   /\ zones'[j].demand_water =
                         TableDemand(zones[j].demand_water,
                                     last'.event.water_demand, last'.event)
                   /\ zones'[j].demand_med =
                         TableDemand(zones[j].demand_med,
                                     last'.event.medical_demand, last'.event)
                   /\ zones'[j].zone_id = zones[j].zone_id
                   /\ zones'[j].name = zones[j].name
                   /\ zones'[j].pos = zones[j].pos]_vars

\* an sos_spike with a food override of 0, a water override and no medical
\* override has been applied to Hilltop (matched by name)
C7_Witness ==
    /\ last.op = "apply_event"
    /\ last.event.type = "sos_spike"
    /\ last.event.target_zone = "Hilltop"
    /\ last.event.food_demand = Given(0)
    /\ last.event.medical_demand = Absent
    /\ \E j \in DOMAIN zones :
          /\ zones[j].name = "Hilltop"
          /\ zones[j].demand_food = 0
          /\ zones[j].demand_water = 1
          /\ zones[j].demand_med = 1

\* the most units any feasible solution delivers, in 1/Grain: the optimum of
\* the program without the distance penalty
MaxDeliverable(zs, ds, as) ==
    SetMax({Total(zs, as, CHOOSE l \in BestLoads(zs, ds, as, y, "food") : TRUE)
            + Total(zs, as, CHOOSE l \in BestLoads(zs, ds, as, y, "water") : TRUE)
            + Total(zs, as, CHOOSE l \in BestLoads(zs, ds, as, y, "med") : TRUE) :
               y \in FeasibleY(zs, as)})

\* C8 (as claimed): the returned optimum of the penalised objective delivers
\* as much as the constraints alone allow.
C8_PenaltyNeverCostsDelivery ==
    sol.status = "OPTIMAL" =>
        Delivered(zones, assets, sol) = MaxDeliverable(zones, depots, assets)

DemandTotals(zs) ==
    [j \in DOMAIN zs |-> zs[j].demand_food + zs[j].demand_water + zs[j].demand_med]

SomeNegativeDemand(zs) ==
    \E j \in DOMAIN zs : \E c \in Commodities : Demand(zs[j], c) < 0

C10_RerunSameKpis ==
    [][(Solved /\ last'.op = "optimize") =>
          /\ plan'.kpis = plan.kpis
          /\ TotalServed(plan'.assignments) = TotalServed(plan.assignments)]_vars

\* C6 (as claimed): each event's mutate-recompute-solve sequence is atomic:
\* no solve reads the zones while another event's assignments are partly
\* applied, and the Plan returned for an event is a solve of the zones
\* exactly as that event's loop left them.
C6_EventsAtomic ==
    \A t \in Threads :
        threads[t].pc = "done" =>
            /\ ~threads[t].torn
            /\ threads[t].req.op = "apply_event" =>
                  threads[t].read = threads[t].left

\* asset i's start_depot resolves to no depot
Unresolved(i) == resolve_depot(depots, assets[i].start_depot) = 0

\* C11: an asset whose start_depot resolves to no depot is in no depot's
\* stock group; when the Plan assigns it, the zone is access-compatible, each
\* load is at most the asset's capacity and the zone's demand, and the ETA
\* is 0 minutes.
C11_UnresolvedDepotAsset ==
    \A i \in DOMAIN assets :
        Unresolved(i) =>
            /\ \A n \in DOMAIN depots : i \notin assets_from_d(assets, depots[n])
            /\ \A m \in DOMAIN plan.assignments :
                  plan.assignments[m].asset_id = assets[i].asset_id =>
                     /\ plan.assignments[m].eta_minutes = 0
                     /\ Compatible(assets[i].type,
                                   ZoneById(plan.assignments[m].zone_id).access)
                     /\ \A c \in Commodities :
                           /\ LoadOf(plan.assignments[m], c) <= Cap(assets[i], c)
                           /\ LoadOf(plan.assignments[m], c)
                                 <= Demand(ZoneById(plan.assignments[m].zone_id), c)

\* an unresolved asset is assigned and carries more food than any depot
\* has in stock
C11_Witness ==
    \E i \in DOMAIN assets :
        /\ Unresolved(i)
        /\ \E m \in DOMAIN plan.assignments :
              /\ plan.assignments[m].asset_id = assets[i].asset_id
              /\ plan.assignments[m].eta_minutes = 0
              /\ \A n \in DOMAIN depots :
                    plan.assignments[m].load_food > depots[n].stock_food

SomeNegativeStock(ds) ==
    \E n \in DOMAIN ds : \E c \in Commodities : Stock(ds[n], c) < 0

\* C12: when there is no solver backend, or a zone demand or a depot stock
\* is negative (no feasible solution), the solve reaches no solution, and
\* whenever it reaches none the caller still gets a Plan: the empty one, with
\* no assignments and coverage, fairness and median ETA all 0.
C12_NoSolutionEmptyPlan ==
    Solved =>
        /\ (backend # "CBC" \/ SomeNegativeDemand(zones) \/ SomeNegativeStock(depots))
              => sol.status # "OPTIMAL"
        /\ sol.status # "OPTIMAL" =>
              /\ last.returned = "Plan"
              /\ plan.assignments = <<>>
              /\ plan.kpis = [coverage_percent |-> 0, fairness_percent |-> 0,
                              median_eta |-> 0]

\* with a backend, a fleet and zones with demand, a solve was infeasible
\* (a negative stock or demand) and the Plan is the empty one
C12_Witness ==
    /\ Solved
    /\ backend = "CBC"
    /\ sol.status = "INFEASIBLE"
    /\ assets # <<>>
    /\ zones # <<>>
    /\ TotalDemand(zones) > 0
    /\ plan.assignments = <<>>
    /\ plan.kpis.fairness_percent = 0

\* C13 (as claimed): in every returned Plan coverage and fairness are within
\* [0, 100] and the median ETA is at least 0.
C13_KpiRanges ==
    Solved =>
        /\ plan.kpis.coverage_percent \in 0..(Percent * Hundredths)
        /\ plan.kpis.fairness_percent \in 0..(Percent * Hundredths)
        /\ plan.kpis.median_eta >= 0

\* C14: no operation changes a depot or an asset, and a zone changes only in
\* an apply_event whose target is its zone_id or its name; so after any
\* sequence of operations the depots, the assets and the zones no event
\* targeted are as they were initially.
C14_FrameOfOperations ==
    [][/\ depots' = depots
       /\ assets' = assets
       /\ DOMAIN zones' = DOMAIN zones
       /\ \A j \in DOMAIN zones :
             (last'.op # "apply_event" \/ ~Matches(zones[j], last'.event))
                => zones'[j] = zones[j]]_vars

\* a road_block has changed Z1, the solved Plan delivers, and Hilltop and the
\* depots have the values they started with
C14_Witness ==
    /\ last.op = "apply_event"
    /\ last.event.type = "road_block"
    /\ last.event.target_zone = "Z1"
    /\ Len(zones) = 2
    /\ zones[1].access = "boat_only"
    /\ zones[2] = Zone("Z2", "Hilltop", NearKm, "road_open", 1, 0, 1)
    /\ depots \in EnvDepotLists
    /\ depots[1].stock_food = MaxStock
    /\ TotalServed(plan.assignments) > 0

NoOverride(type, target) == Event(type, target, Absent, Absent, Absent, None)

\* C15: a road_clear applied right after a road_block on the same target,
\* both without override, leaves every matched zone road_open; applying the
\* event that was just applied leaves the zones as they are; and for every
\* zone, block-then-clear gives road_open, which is the zone it started from
\* only when that was road_open (not for both or boat_only).
C15_BlockThenClear ==
    /\ [][(/\ last.op = "apply_event"
           /\ last.event = NoOverride("road_block", last.event.target_zone)
           /\ last'.op = "apply_event"
           /\ last'.event = NoOverride("road_clear", last.event.target_zone))
             => \A j \in DOMAIN zones :
                   Matches(zones[j], last'.event) => zones'[j].access = "road_open"]_vars
    /\ [][(last.op = "apply_event" /\ last'.op = "apply_event"
             /\ last'.event = last.event) => zones' = zones]_vars
    /\ [](\A j \in DOMAIN zones :
             LET pair == ApplyToZone(
                             ApplyToZone(zones[j],
                                 NoOverride("road_block", zones[j].zone_id)),
                             NoOverride("road_clear", zones[j].zone_id))
             IN  /\ pair.access = "road_open"
                 /\ (pair = zones[j]) <=> (zones[j].access = "road_open")
                 /\ \A e \in Events :
                       ApplyToZone(ApplyToZone(zones[j], e), e)
                          = ApplyToZone(zones[j], e))

\* Z1, which started as both, is road_open after a road_clear without override
C15_Witness ==
    /\ last.op = "apply_event"
    /\ last.event = NoOverride("road_clear", "Z1")
    /\ \E j \in DOMAIN zones :
          zones[j].zone_id = "Z1" /\ zones[j].access = "road_open"
====
